---- MODULE Spec2Model ----
(***************************************************************************)
(* Model of the pulpoh backtesting engine (framework/backtester.py) and    *)
(* its exit models (framework/exit_models.py).                             *)
(*                                                                         *)
(* Prices and percentages are Python floats in the source.  They are       *)
(* modelled as exact rationals [n, d] in lowest terms with d > 0, so that  *)
(* every product, quotient and comparison of the source is computed, and   *)
(* equality of two prices is equality of the records.  Indices are the     *)
(* source's zero-based positions; a DataFrame is a sequence of candle      *)
(* records and row i of it is element i + 1 of the sequence.               *)
(***************************************************************************)
EXTENDS Integers, Sequences, FiniteSets, TLC

VARIABLES
    \* One call of run_backtest (see "The state machine" below).
    df, signals, exit_model, leverage, pc, pos, trades, origin,
    \* The caller of run_backtest: the index labels of the DataFrame it
    \* passes, which call it is at, what the first call returned, and the
    \* exception a call ended with.
    arg_index, call, first, raised,
    \* One call of get_exit on the instance exit_model: its arguments, where
    \* it is, the rows scanned so far, the highest/stop values a TrailingStop
    \* loop has computed, and its return value.
    g_frame, g_candle, g_pc, g_i, g_highs, g_stops, g_result,
    \* One call of build_exit_model: its arguments and its outcome.
    b_name, b_params, b_pc, b_built,
    \* One window of walkforward.main: the hypothesis object (its instance
    \* attributes and its exit_params dict), the metrics each parameter
    \* combination earns in training, the sort criterion, the locals of
    \* optimize, and the log of the run_years calls made.
    h_attrs, h_exit_params, w_table, w_sort, w_pc, w_i,
    w_best_score, w_best_params, w_best, w_runs,
    \* One call of _fetch_klines: the locals of the function, what the server
    \* still has to answer with, and the exception the call ended with.
    d_pc, d_end, d_start, d_attempt, d_limited, d_data, d_rows, d_raised,
    \* One call of generate_signals of the ABC reversal hypothesis: its frame
    \* and the pivots and the signal Series it computes.
    s_df, s_pc, s_bull, s_ph, s_pl, s_signal

engineVars == <<df, signals, exit_model, leverage, pc, pos, trades, origin>>
callerVars == <<arg_index, call, first, raised>>
getExitVars == <<g_frame, g_candle, g_pc, g_i, g_highs, g_stops, g_result>>
factoryVars == <<b_name, b_params, b_pc, b_built>>

walkVars ==
    <<h_attrs, h_exit_params, w_table, w_sort, w_pc, w_i,
      w_best_score, w_best_params, w_best, w_runs>>
fetchVars ==
    <<d_pc, d_end, d_start, d_attempt, d_limited, d_data, d_rows, d_raised>>
signalVars == <<s_df, s_pc, s_bull, s_ph, s_pl, s_signal>>
toolVars == <<walkVars, fetchVars, signalVars>>
vars == <<engineVars, callerVars, getExitVars, factoryVars, toolVars>>

(***************************************************************************)
(* Bounds of the model.                                                    *)
(***************************************************************************)
\* Number of candles of the series handed to run_backtest.
NumCandles == 4
\* Largest max_bars given to a capped exit model (0..MaxBars are tried).
MaxBars == 1
\* Longest forward window handed to a get_exit call followed on its own.
MaxWindow == 3
\* Largest max_bars of the exit model of such a call (0..MaxCap are tried).
MaxCap == 2
\* Candles of the series handed to two successive calls of run_backtest.
CallCandles == 3
\* Candles of the series of a call with a high leverage.
LevCandles == 3

(***************************************************************************)
(* Float arithmetic, as exact rationals.                                   *)
(***************************************************************************)
Abs(x) == IF x < 0 THEN -x ELSE x

RECURSIVE Gcd(_, _)
Gcd(a, b) == IF b = 0 THEN a ELSE Gcd(b, a % b)

\* The rational n/d in lowest terms with a positive denominator (d # 0).
Rat(n, d) ==
    LET g == Gcd(Abs(n), Abs(d))
        s == IF d < 0 THEN -1 ELSE 1
    IN  [n |-> (s * n) \div g, d |-> (s * d) \div g]

FromInt(k) == [n |-> k, d |-> 1]

\* x + y over the least common denominator.
RAdd(x, y) ==
    LET g == Gcd(x.d, y.d)
    IN  Rat(x.n * (y.d \div g) + y.n * (x.d \div g), (x.d \div g) * y.d)

RNeg(x) == [n |-> -x.n, d |-> x.d]
RSub(x, y) == RAdd(x, RNeg(y))

\* x * y, cancelling across the fraction bars before multiplying.
RMul(x, y) ==
    LET g1 == Gcd(Abs(x.n), y.d)
        g2 == Gcd(Abs(y.n), x.d)
    IN  Rat((x.n \div g1) * (y.n \div g2), (x.d \div g2) * (y.d \div g1))

\* x / y for y # 0.
RDiv(x, y) == RMul(x, Rat(y.d, y.n))

\* x <= y, compared over the least common denominator.
RLe(x, y) ==
    LET g == Gcd(x.d, y.d)
    IN  x.n * (y.d \div g) <= y.n * (x.d \div g)

RMax(x, y) == IF RLe(y, x) THEN x ELSE y
Min(a, b)  == IF a <= b THEN a ELSE b

(***************************************************************************)
(* Inputs: candles, signals, exit models, execution parameters.            *)
(***************************************************************************)
\* The OHLC part (and the precomputed atr) of a candle, in whole price units.
Shape(o, h, l, c, a) ==
    [open |-> FromInt(o), high |-> FromInt(h), low |-> FromInt(l),
     close |-> FromInt(c), atr |-> FromInt(a)]

\* A quiet candle, one that dips and rallies, and a crash to zero.  After an
\* entry at an open of 100 the swing candle touches both a 1% stop and a 2%
\* target; after an entry at its own open of 99 it touches the target only.
Quiet == Shape(100, 101, 100, 101, 1)
Swing == Shape( 99, 104,  99, 100, 2)
Crash == Shape(100, 100,   0,  50, 1)

Shapes == {Quiet, Swing, Crash}

\* The timestamp of the candle at index i: strictly increasing, one bar apart.
Timestamp(i) == 1000 + 60 * i

WithTs(shape, t) ==
    [timestamp |-> t, open |-> shape.open, high |-> shape.high,
     low |-> shape.low, close |-> shape.close, atr |-> shape.atr]

\* Every candle series of n candles over the shapes of S.
SeriesOver(S, n) ==
    { [i \in 1..n |-> WithTs(f[i], Timestamp(i - 1))] : f \in [1..n -> S] }

\* Every candle series of n candles over Shapes.
SeriesOf(n) == SeriesOver(Shapes, n)

\* Every candle series of NumCandles candles over Shapes.
Series == SeriesOf(NumCandles)

\* Default execution parameters of run_backtest, in percent.
fees_pct == Rat(5, 100)
slippage_pct == Rat(1, 10)

Leverages == {1, 5}

(***************************************************************************)
(* framework/exit_models.py                                                *)
(***************************************************************************)
ExitResult(exit_price, reason, bars_held) ==
    [exit_price |-> exit_price, reason |-> reason, bars_held |-> bars_held]

\* Row i (zero-based) of a DataFrame: df.iloc[i].
Row(frame, i) == frame[i + 1]

\* Constructors: the attributes each __init__ stores.
FixedTPSL(tp_pct, sl_pct) ==
    [cls |-> "FixedTPSL",
     tp_mult |-> RAdd(FromInt(1), RDiv(tp_pct, FromInt(100))),
     sl_mult |-> RSub(FromInt(1), RDiv(sl_pct, FromInt(100)))]

TrailingStop(trail_pct) ==
    [cls |-> "TrailingStop", trail_pct |-> RDiv(trail_pct, FromInt(100))]

TimeBased(max_bars) ==
    [cls |-> "TimeBased", max_bars |-> max_bars]

ComboExit(tp_pct, sl_pct, max_bars) ==
    [cls |-> "ComboExit",
     tp_mult |-> RAdd(FromInt(1), RDiv(tp_pct, FromInt(100))),
     sl_mult |-> RSub(FromInt(1), RDiv(sl_pct, FromInt(100))),
     max_bars |-> max_bars]

AtrComboExit(tp_atr_mult, sl_atr_mult, max_bars) ==
    [cls |-> "AtrComboExit", tp_atr_mult |-> tp_atr_mult,
     sl_atr_mult |-> sl_atr_mult, max_bars |-> max_bars]

\* Mutant of ScanTPSL: the target tested before the stop in each row.
RECURSIVE ScanTPSL_TargetFirst(_, _, _, _, _)
ScanTPSL_TargetFirst(frame, i, limit, tp_price, sl_price) ==
    IF i > limit THEN [reason |-> "NONE"]
    ELSE IF RLe(tp_price, Row(frame, i).high) THEN ExitResult(tp_price, "TP", i)
    ELSE IF RLe(Row(frame, i).low, sl_price) THEN ExitResult(sl_price, "SL", i)
    ELSE ScanTPSL_TargetFirst(frame, i + 1, limit, tp_price, sl_price)

\* The stop/target loop shared by FixedTPSL, ComboExit and AtrComboExit:
\* rows i..limit in order, the stop tested before the target in each row.
\* "NONE" when the loop runs to its end without returning.
RECURSIVE ScanTPSL(_, _, _, _, _)
ScanTPSL(frame, i, limit, tp_price, sl_price) ==
    IF i > limit THEN [reason |-> "NONE"]
    ELSE IF RLe(Row(frame, i).low, sl_price) THEN ExitResult(sl_price, "SL", i)
    ELSE IF RLe(tp_price, Row(frame, i).high) THEN ExitResult(tp_price, "TP", i)
    ELSE ScanTPSL(frame, i + 1, limit, tp_price, sl_price)

FixedTPSL_get_exit(self, entry_price, frame) ==
    LET tp_price == RMul(entry_price, self.tp_mult)
        sl_price == RMul(entry_price, self.sl_mult)
        hit == ScanTPSL(frame, 0, Len(frame) - 1, tp_price, sl_price)
    IN  IF hit.reason # "NONE" THEN hit
        ELSE ExitResult(Row(frame, Len(frame) - 1).close, "END_OF_DATA",
                        Len(frame) - 1)

\* Mutant of TrailHighest: the row's high taken without the running maximum.
TrailHighest_RowHigh(highest, high) == high

\* highest = max(highest, row["high"])
TrailHighest(highest, high) == RMax(highest, high)

\* stop = highest * (1 - self.trail_pct)
TrailStop(highest, trail_pct) == RMul(highest, RSub(FromInt(1), trail_pct))

\* The trailing loop from row i on, with the running highest high.
RECURSIVE ScanTrail(_, _, _, _)
ScanTrail(frame, i, highest, trail_pct) ==
    IF i > Len(frame) - 1
    THEN ExitResult(Row(frame, Len(frame) - 1).close, "END_OF_DATA",
                    Len(frame) - 1)
    ELSE LET h == TrailHighest(highest, Row(frame, i).high)
             stop == TrailStop(h, trail_pct)
         IN  IF RLe(Row(frame, i).low, stop) THEN ExitResult(stop, "SL", i)
             ELSE ScanTrail(frame, i + 1, h, trail_pct)

TrailingStop_get_exit(self, entry_price, frame) ==
    ScanTrail(frame, 0, entry_price, self.trail_pct)

\* Mutant of TimeBased_get_exit: the reason is TIME whatever the window.
TimeBased_get_exit_AlwaysTime(self, entry_price, frame) ==
    LET bars == Min(self.max_bars, Len(frame) - 1)
    IN  ExitResult(Row(frame, bars).close, "TIME", bars)

TimeBased_get_exit(self, entry_price, frame) ==
    LET bars == Min(self.max_bars, Len(frame) - 1)
    IN  ExitResult(Row(frame, bars).close,
                   IF bars = self.max_bars THEN "TIME" ELSE "END_OF_DATA",
                   bars)

\* Mutant of CappedExit: range(limit), the row at the cap is not scanned.
CappedExit_ExclusiveCap(max_bars, frame, tp_price, sl_price) ==
    LET limit == Min(max_bars, Len(frame) - 1)
        hit == ScanTPSL(frame, 0, limit - 1, tp_price, sl_price)
    IN  IF hit.reason # "NONE" THEN hit
        ELSE ExitResult(Row(frame, limit).close,
                        IF limit = max_bars THEN "TIME" ELSE "END_OF_DATA",
                        limit)

\* Mutant of CappedExit: the cap reported as bars_held when data ran out.
CappedExit_ReportsCap(max_bars, frame, tp_price, sl_price) ==
    LET limit == Min(max_bars, Len(frame) - 1)
        hit == ScanTPSL(frame, 0, limit, tp_price, sl_price)
    IN  IF hit.reason # "NONE" THEN hit
        ELSE ExitResult(Row(frame, limit).close,
                        IF limit = max_bars THEN "TIME" ELSE "END_OF_DATA",
                        max_bars)

\* Mutant of CappedExit: TIME only when a row exists beyond the cap.
CappedExit_TimeNeedsMoreData(max_bars, frame, tp_price, sl_price) ==
    LET limit == Min(max_bars, Len(frame) - 1)
        hit == ScanTPSL(frame, 0, limit, tp_price, sl_price)
    IN  IF hit.reason # "NONE" THEN hit
        ELSE ExitResult(Row(frame, limit).close,
                        IF max_bars < Len(frame) - 1 THEN "TIME"
                        ELSE "END_OF_DATA",
                        limit)

\* The tail shared by ComboExit and AtrComboExit once the thresholds are set.
CappedExit(max_bars, frame, tp_price, sl_price) ==
    LET limit == Min(max_bars, Len(frame) - 1)
        hit == ScanTPSL(frame, 0, limit, tp_price, sl_price)
    IN  IF hit.reason # "NONE" THEN hit
        ELSE ExitResult(Row(frame, limit).close,
                        IF limit = max_bars THEN "TIME" ELSE "END_OF_DATA",
                        limit)

ComboExit_get_exit(self, entry_price, frame) ==
    CappedExit(self.max_bars, frame,
               RMul(entry_price, self.tp_mult), RMul(entry_price, self.sl_mult))

\* "atr" not in entry_candle, for which AtrComboExit.get_exit raises
\* ValueError; the other classes never look at entry_candle.
AtrMissing(self, entry_candle) ==
    self.cls = "AtrComboExit" /\ "atr" \notin DOMAIN entry_candle

\* What AtrComboExit.get_exit returns when it does not raise.
AtrComboExit_get_exit(self, entry_price, frame, entry_candle) ==
    LET atr == entry_candle.atr
        tp_price == RAdd(entry_price, RMul(atr, self.tp_atr_mult))
        sl_price == RSub(entry_price, RMul(atr, self.sl_atr_mult))
    IN  CappedExit(self.max_bars, frame, tp_price, sl_price)

\* exit_model.get_exit(entry_price, future_df, entry_candle=entry_candle),
\* when it returns.  All five classes take entry_candle, so the call never
\* raises TypeError and the two-argument retry is not taken.
get_exit(self, entry_price, frame, entry_candle) ==
    CASE self.cls = "FixedTPSL"    -> FixedTPSL_get_exit(self, entry_price, frame)
      [] self.cls = "TrailingStop" -> TrailingStop_get_exit(self, entry_price, frame)
      [] self.cls = "TimeBased"    -> TimeBased_get_exit(self, entry_price, frame)
      [] self.cls = "ComboExit"    -> ComboExit_get_exit(self, entry_price, frame)
      [] self.cls = "AtrComboExit" ->
            AtrComboExit_get_exit(self, entry_price, frame, entry_candle)

\* The exit models a run is configured with.
ExitModels ==
    { FixedTPSL(FromInt(2), FromInt(1)), TrailingStop(FromInt(1)) }
    \cup { TimeBased(m) : m \in 0..MaxBars }
    \cup { ComboExit(FromInt(2), FromInt(1), m) : m \in 0..MaxBars }
    \cup { AtrComboExit(FromInt(2), FromInt(1), m) : m \in 0..MaxBars }

(***************************************************************************)
(* framework/backtester.py                                                 *)
(***************************************************************************)
\* signals[signals].index.tolist(): the indices of the true signals, ascending.
\* Mutant of TrueFrom: the indices of the true signals, latest first.
RECURSIVE TrueFrom_Descending(_, _)
TrueFrom_Descending(sigs, i) ==
    IF i > Len(sigs) - 1 THEN <<>>
    ELSE TrueFrom_Descending(sigs, i + 1)
         \o (IF sigs[i + 1] THEN <<i>> ELSE <<>>)

RECURSIVE TrueFrom(_, _)
TrueFrom(sigs, i) ==
    IF i > Len(sigs) - 1 THEN <<>>
    ELSE (IF sigs[i + 1] THEN <<i>> ELSE <<>>) \o TrueFrom(sigs, i + 1)

signal_indices(sigs) == TrueFrom(sigs, 0)

\* Mutant of EntryPrice: the open taken as it is, slippage forgotten.
EntryPrice_NoSlippage(entry_candle) == entry_candle.open

EntryPrice(entry_candle) ==
    RMul(entry_candle.open, RAdd(FromInt(1), RDiv(slippage_pct, FromInt(100))))

LiquidationPrice(entry_price, lev) ==
    IF lev > 1
    THEN RMul(entry_price,
              RAdd(RSub(FromInt(1), Rat(1, lev)), Rat(5, 1000)))
    ELSE FromInt(0)

\* Mutant of FutureDf: the slice starts at the entry candle itself.
FutureDf_FromEntry(frame, entry_idx) == SubSeq(frame, entry_idx + 1, Len(frame))

\* df.iloc[entry_idx + 1:].reset_index(drop=True)
FutureDf(frame, entry_idx) == SubSeq(frame, entry_idx + 2, Len(frame))

\* Mutant of LiqScan: no break, so the last row at or below the price wins.
RECURSIVE LiqScan_NoBreak(_, _, _)
LiqScan_NoBreak(future_df, i, liquidation_price) ==
    IF i > Len(future_df) - 1 THEN -1
    ELSE LET later == LiqScan_NoBreak(future_df, i + 1, liquidation_price)
         IN  IF later >= 0 THEN later
             ELSE IF RLe(Row(future_df, i).low, liquidation_price) THEN i
             ELSE -1

\* The liquidation loop from row i on: the offset of the first row whose low
\* is at or below the liquidation price, -1 when the loop ends without one.
RECURSIVE LiqScan(_, _, _)
LiqScan(future_df, i, liquidation_price) ==
    IF i > Len(future_df) - 1 THEN -1
    ELSE IF RLe(Row(future_df, i).low, liquidation_price) THEN i
    ELSE LiqScan(future_df, i + 1, liquidation_price)

\* Mutant of ChecksLiquidation: the liquidation loop never runs.
ChecksLiquidation_Never(lev) == FALSE

\* Mutant of ChecksLiquidation: the loop also runs for a spot position.
ChecksLiquidation_Always(lev) == lev >= 1

\* Whether the liquidation loop is run at all.
ChecksLiquidation(lev) == lev > 1

LiqOffset(future_df, liquidation_price, lev) ==
    IF ChecksLiquidation(lev) THEN LiqScan(future_df, 0, liquidation_price)
    ELSE -1

Trade(entry_time, exit_time, entry_price, exit_price, exit_reason, bars_held, lev, pnl_pct, pnl_gross_pct, fees_paid_pct) ==
    [entry_time |-> entry_time, exit_time |-> exit_time,
     entry_price |-> entry_price, exit_price |-> exit_price,
     exit_reason |-> exit_reason, bars_held |-> bars_held, leverage |-> lev,
     pnl_pct |-> pnl_pct, pnl_gross_pct |-> pnl_gross_pct,
     fees_paid_pct |-> fees_paid_pct]

\* Mutant of ExitIdx: bars_held counted from the entry candle.
ExitIdx_FromEntry(entry_idx, bars_held, n) ==
    Min(entry_idx + bars_held, n - 1)

\* exit_idx = min(entry_idx + 1 + bars_held, len(df) - 1), and the same for
\* liq_exit_idx with liq_i.
ExitIdx(entry_idx, bars_held, n) ==
    Min(entry_idx + 1 + bars_held, n - 1)

\* Mutant of LiquidatedTrade: the fees scaled by leverage as for other trades.
LiquidatedTrade_LeveragedFees(frame, entry_idx, liq_i, lev) ==
    LET entry_candle == Row(frame, entry_idx)
        entry_price == EntryPrice(entry_candle)
        liq_exit_idx == ExitIdx(entry_idx, liq_i, Len(frame))
    IN  Trade(entry_candle.timestamp, Row(frame, liq_exit_idx).timestamp,
              entry_price, LiquidationPrice(entry_price, lev), "LIQUIDATED",
              liq_i, lev, FromInt(-100), FromInt(-100),
              RMul(RMul(fees_pct, FromInt(2)), FromInt(lev)))

\* The Trade appended inside the liquidation loop at offset liq_i.
LiquidatedTrade(frame, entry_idx, liq_i, lev) ==
    LET entry_candle == Row(frame, entry_idx)
        entry_price == EntryPrice(entry_candle)
        liq_exit_idx == ExitIdx(entry_idx, liq_i, Len(frame))
    IN  Trade(entry_candle.timestamp, Row(frame, liq_exit_idx).timestamp,
              entry_price, LiquidationPrice(entry_price, lev), "LIQUIDATED",
              liq_i, lev, FromInt(-100), FromInt(-100),
              RMul(fees_pct, FromInt(2)))

\* Mutant of GrossPnl: the price move not multiplied by the leverage.
GrossPnl_Unleveraged(exit_price, entry_price, lev) ==
    RMul(RSub(RDiv(exit_price, entry_price), FromInt(1)), FromInt(100))

\* (result.exit_price / entry_price - 1) * 100 * leverage
GrossPnl(exit_price, entry_price, lev) ==
    RMul(RMul(RSub(RDiv(exit_price, entry_price), FromInt(1)), FromInt(100)),
         FromInt(lev))

\* fees_pct * 2 * leverage
TotalFees(lev) == RMul(RMul(fees_pct, FromInt(2)), FromInt(lev))

\* The Trade appended after the exit model has decided.
PolicyTrade(frame, entry_idx, model, lev) ==
    LET entry_candle == Row(frame, entry_idx)
        entry_price == EntryPrice(entry_candle)
        result == get_exit(model, entry_price, FutureDf(frame, entry_idx),
                           entry_candle)
        exit_idx == ExitIdx(entry_idx, result.bars_held, Len(frame))
        gross_pnl == GrossPnl(result.exit_price, entry_price, lev)
        total_fees == TotalFees(lev)
        net_pnl == RSub(gross_pnl, total_fees)
    IN  Trade(entry_candle.timestamp, Row(frame, exit_idx).timestamp,
              entry_price, result.exit_price, result.reason, result.bars_held,
              lev, net_pnl, gross_pnl, total_fees)

\* One pass of the loop body for the signal at sig_idx: what it appends to
\* trades, as a sequence of zero or one Trade.
LoopBody(frame, sig_idx, model, lev) ==
    LET entry_idx == sig_idx + 1 IN
    IF entry_idx >= Len(frame) THEN <<>>
    ELSE IF FutureDf(frame, entry_idx) = <<>> THEN <<>>
    ELSE LET liq_i == LiqOffset(FutureDf(frame, entry_idx),
                                LiquidationPrice(
                                    EntryPrice(Row(frame, entry_idx)), lev),
                                lev)
         IN  IF liq_i >= 0
             THEN <<LiquidatedTrade(frame, entry_idx, liq_i, lev)>>
             ELSE <<PolicyTrade(frame, entry_idx, model, lev)>>

\* The for loop over the indices idx: what it leaves in trades.
RECURSIVE LoopOver(_, _, _, _)
LoopOver(frame, idx, model, lev) ==
    IF idx = <<>> THEN <<>>
    ELSE LoopBody(frame, Head(idx), model, lev)
         \o LoopOver(frame, Tail(idx), model, lev)

\* What a call returns when no get_exit raises.
run_backtest(frame, sigs, model, lev) ==
    LoopOver(frame, signal_indices(sigs), model, lev)

(***************************************************************************)
(* The state machine: one call of run_backtest.                            *)
(*   df, signals, exit_model, leverage : the arguments of the call         *)
(*   pc      : "loop" while the for loop runs, "done" after return         *)
(*   pos     : how many entries of signal_indices the loop has consumed    *)
(*   trades  : the list being built                                        *)
(*   origin  : for each Trade of trades, the sig_idx that produced it      *)
(***************************************************************************)
\* reset_index(drop=True): the labels 0..n-1 of a frame of n rows.
RangeIndex(n) == [i \in 1..n |-> i - 1]

\* The caller has made no earlier call and no call has raised.
FirstCall == call = 1 /\ first = <<>> /\ raised = "NONE"

\* No call of get_exit is being followed on its own.
NoGetExit ==
    /\ g_frame = <<>>
    /\ g_candle = <<>>
    /\ g_pc = "idle"
    /\ g_i = 0
    /\ g_highs = <<>>
    /\ g_stops = <<>>
    /\ g_result = <<>>

\* No call of build_exit_model is being followed.
NoFactory ==
    /\ b_name = "NONE"
    /\ b_params = <<>>
    /\ b_pc = "idle"
    /\ b_built = <<>>

\* No walk-forward window is being followed.
NoWalkForward ==
    /\ h_attrs = <<>>
    /\ h_exit_params = <<>>
    /\ w_table = <<>>
    /\ w_sort = "NONE"
    /\ w_pc = "idle"
    /\ w_i = 0
    /\ w_best_score = <<>>
    /\ w_best_params = <<>>
    /\ w_best = <<>>
    /\ w_runs = <<>>

\* No call of _fetch_klines is being followed.
NoFetch ==
    /\ d_pc = "idle"
    /\ d_end = 0
    /\ d_start = 0
    /\ d_attempt = 0
    /\ d_limited = 0
    /\ d_data = <<>>
    /\ d_rows = <<>>
    /\ d_raised = "NONE"

\* No call of generate_signals is being followed.
NoSignals ==
    /\ s_df = <<>>
    /\ s_pc = "idle"
    /\ s_bull = <<>>
    /\ s_ph = <<>>
    /\ s_pl = <<>>
    /\ s_signal = <<>>

NoTools == NoWalkForward /\ NoFetch /\ NoSignals

Init ==
    /\ df \in Series
    /\ signals \in [1..NumCandles -> BOOLEAN]
    /\ exit_model \in ExitModels
    /\ leverage \in Leverages
    /\ pc = "loop"
    /\ pos = 0
    /\ trades = <<>>
    /\ origin = <<>>
    /\ arg_index = RangeIndex(NumCandles)
    /\ FirstCall
    /\ NoTools
    /\ NoGetExit
    /\ NoFactory

\* The signal index the loop is at.
sig_idx == signal_indices(signals)[pos + 1]

InLoop == pc = "loop" /\ pos < Len(signal_indices(signals))

\* Mutant of Continue: one position at a time, the signals whose entry
\* candle falls in the holding period of the last trade are passed over.
Continue_OnePosition ==
    /\ LET idx == signal_indices(signals)
           busy == IF trades' = <<>> THEN -1
                   ELSE origin'[Len(origin')] + 2
                        + trades'[Len(trades')].bars_held
           free == { p \in (pos + 1)..Len(idx) :
                       p = Len(idx) \/ idx[p + 1] + 1 > busy }
       IN  pos' = CHOOSE p \in free : \A q \in free : p <= q
    /\ UNCHANGED <<df, signals, exit_model, leverage, pc>>
    /\ UNCHANGED <<callerVars, getExitVars, factoryVars, toolVars>>

Continue ==
    /\ pos' = pos + 1
    /\ UNCHANGED <<df, signals, exit_model, leverage, pc>>
    /\ UNCHANGED <<callerVars, getExitVars, factoryVars, toolVars>>

\* Mutant of SkipNoEntry: no guard, df.iloc[entry_idx] raises IndexError.
SkipNoEntry_Raises ==
    /\ InLoop
    /\ sig_idx + 1 >= Len(df)
    /\ pc' = "raised"
    /\ raised' = "IndexError"
    /\ UNCHANGED <<df, signals, exit_model, leverage, pos, trades, origin>>
    /\ UNCHANGED <<arg_index, call, first, getExitVars, factoryVars, toolVars>>

\* entry_idx >= len(df): continue.
SkipNoEntry ==
    /\ InLoop
    /\ sig_idx + 1 >= Len(df)
    /\ UNCHANGED <<trades, origin>>
    /\ Continue

\* future_df.empty: continue.
SkipEmptyWindow ==
    /\ InLoop
    /\ sig_idx + 1 < Len(df)
    /\ FutureDf(df, sig_idx + 1) = <<>>
    /\ UNCHANGED <<trades, origin>>
    /\ Continue

\* The offset the liquidation loop stops at for the signal at s, -1 if none.
LiqAt(s) ==
    LiqOffset(FutureDf(df, s + 1),
              LiquidationPrice(EntryPrice(Row(df, s + 1)), leverage), leverage)

\* The liquidation loop found a row: append the LIQUIDATED trade, continue.
Liquidate ==
    /\ InLoop
    /\ sig_idx + 1 < Len(df)
    /\ FutureDf(df, sig_idx + 1) # <<>>
    /\ LiqAt(sig_idx) >= 0
    /\ trades' = trades \o LoopBody(df, sig_idx, exit_model, leverage)
    /\ origin' = Append(origin, sig_idx)
    /\ Continue

\* Not liquidated: ask the exit model, append its trade, continue.
ExitByModel ==
    /\ InLoop
    /\ sig_idx + 1 < Len(df)
    /\ FutureDf(df, sig_idx + 1) # <<>>
    /\ LiqAt(sig_idx) < 0
    /\ ~AtrMissing(exit_model, Row(df, sig_idx + 1))
    /\ trades' = trades \o LoopBody(df, sig_idx, exit_model, leverage)
    /\ origin' = Append(origin, sig_idx)
    /\ Continue

\* The loop is exhausted: return trades.
Return ==
    /\ pc = "loop"
    /\ pos = Len(signal_indices(signals))
    /\ pc' = "done"
    /\ UNCHANGED <<df, signals, exit_model, leverage, pos, trades, origin>>
    /\ UNCHANGED <<callerVars, getExitVars, factoryVars, toolVars>>

Next == SkipNoEntry \/ SkipEmptyWindow \/ Liquidate \/ ExitByModel \/ Return

Spec == Init /\ [][Next]_vars

(***************************************************************************)
(* Vocabulary of the properties.  Trade k of trades came from the signal   *)
(* at index origin[k]; its entry candle is candle origin[k] + 1 and its    *)
(* forward window is the candles after that one.                           *)
(***************************************************************************)
Emitted == 1..Len(trades)

Candle(i) == df[i + 1]
EntryCandleOf(k) == Candle(origin[k] + 1)
WindowLen(k) == Len(df) - origin[k] - 2
WindowRow(k, i) == Candle(origin[k] + 2 + i)
Offsets(k) == 0..(WindowLen(k) - 1)

\* entry_price * (1 - 1/leverage + 0.005), over the denominator 200 * leverage.
LiqPriceOf(k) ==
    RMul(trades[k].entry_price, Rat(201 * leverage - 200, 200 * leverage))

\* The offsets of trade k's window whose low is at or below LiqPriceOf(k).
LiqTouches(k) == { i \in Offsets(k) : RLe(WindowRow(k, i).low, LiqPriceOf(k)) }

\* What the exit model answers on trade k's window, liquidation left aside.
ModelAnswer(k) ==
    get_exit(exit_model, trades[k].entry_price,
             [i \in 1..WindowLen(k) |-> WindowRow(k, i - 1)], EntryCandleOf(k))

Liquidated(k) == trades[k].exit_reason = "LIQUIDATED"

(***************************************************************************)
(* C1. Every Trade enters on the candle after its signal: entry_time is    *)
(* that candle's timestamp and entry_price is its open raised by the       *)
(* slippage, entry_price * 100 = open * (100 + slippage_pct).              *)
(***************************************************************************)
C1_EntryAtNextOpen ==
    \A k \in Emitted :
        /\ trades[k].entry_time = EntryCandleOf(k).timestamp
        /\ RMul(trades[k].entry_price, FromInt(100))
             = RMul(EntryCandleOf(k).open, RAdd(FromInt(100), slippage_pct))

\* A run that has emitted a liquidated trade and one closed by its exit model.
C1_Witness ==
    /\ \E k \in Emitted : Liquidated(k)
    /\ \E k \in Emitted : ~Liquidated(k)

(***************************************************************************)
(* C2. The Trade of a signal at s is the same when any candle at an index  *)
(* <= s is replaced by another candle (other prices, atr and timestamp),   *)
(* and when the high, low and close of the entry candle s + 1 are          *)
(* replaced: only the entry candle's open, timestamp and atr and the       *)
(* candles after it are read.                                              *)
(***************************************************************************)
\* Each shape differs from one of these two in every field.
Replacements == {Swing, Crash}

\* The Trade t of the signal at s stays the Trade of s under the replacements.
Unaffected(t, s) ==
    /\ \A j \in 0..s : \A sh \in Replacements :
          LoopBody([df EXCEPT ![j + 1] = WithTs(sh, 7)],
                   s, exit_model, leverage) = <<t>>
    /\ \A sh \in Replacements :
          LoopBody([df EXCEPT ![s + 2] =
                       [@ EXCEPT !.high = sh.high, !.low = sh.low,
                                 !.close = sh.close]],
                   s, exit_model, leverage) = <<t>>

LiquidationComesFirst(k) ==
    /\ leverage > 1
    /\ \E i \in LiqTouches(k) :
          \/ ModelAnswer(k).reason = "END_OF_DATA"
          \/ i < ModelAnswer(k).bars_held

C4_LiquidatedAtFirstTouch ==
    \A k \in Emitted :
        Liquidated(k) =>
            /\ trades[k].bars_held \in LiqTouches(k)
            /\ \A i \in LiqTouches(k) : trades[k].bars_held <= i
            /\ RMul(trades[k].exit_price, FromInt(200 * leverage))
                 = RMul(trades[k].entry_price, FromInt(201 * leverage - 200))
            /\ trades[k].exit_time = WindowRow(k, trades[k].bars_held).timestamp

\* A trade liquidated at offset 0 of a window whose next candle also touches.
C4_Witness ==
    \E k \in Emitted :
        /\ Liquidated(k)
        /\ LiqTouches(k) = {0, 1}
        /\ trades[k].bars_held = 0

(***************************************************************************)
(* C5. With leverage = 1 no Trade is LIQUIDATED, whatever the lows: every  *)
(* exit_reason is one of TP, SL, TIME, END_OF_DATA.                        *)
(***************************************************************************)
C5_SpotNeverLiquidated ==
    leverage = 1 =>
        \A k \in Emitted :
            trades[k].exit_reason \in {"TP", "SL", "TIME", "END_OF_DATA"}

\* A spot trade whose window holds a candle that falls to zero.
C5_Witness ==
    /\ leverage = 1
    /\ \E k \in Emitted : \E i \in Offsets(k) : WindowRow(k, i).low = FromInt(0)

(***************************************************************************)
(* Thresholds of the exit model for trade k, and the window offsets that   *)
(* touch them.                                                             *)
(***************************************************************************)
HasThresholds == exit_model.cls \in {"FixedTPSL", "ComboExit", "AtrComboExit"}
HasCap == exit_model.cls \in {"TimeBased", "ComboExit", "AtrComboExit"}
CappedWithThresholds == exit_model.cls \in {"ComboExit", "AtrComboExit"}

TpOf(k) ==
    IF exit_model.cls = "AtrComboExit"
    THEN RAdd(trades[k].entry_price,
              RMul(EntryCandleOf(k).atr, exit_model.tp_atr_mult))
    ELSE RMul(trades[k].entry_price, exit_model.tp_mult)

SlOf(k) ==
    IF exit_model.cls = "AtrComboExit"
    THEN RSub(trades[k].entry_price,
              RMul(EntryCandleOf(k).atr, exit_model.sl_atr_mult))
    ELSE RMul(trades[k].entry_price, exit_model.sl_mult)

SlTouched(k, i) == RLe(WindowRow(k, i).low, SlOf(k))
TpTouched(k, i) == RLe(TpOf(k), WindowRow(k, i).high)
Touches(k) == { i \in Offsets(k) : SlTouched(k, i) \/ TpTouched(k, i) }

\* The last offset a capped model scans in trade k's window.
LastScanned(k) == Min(exit_model.max_bars, WindowLen(k) - 1)

(***************************************************************************)
(* C6. With a capped exit model (TimeBased, ComboExit, AtrComboExit) and   *)
(* any leverage, no Trade has bars_held above max_bars.                    *)
(***************************************************************************)
C6_BarsHeldWithinCap ==
    HasCap => \A k \in Emitted : trades[k].bars_held <= exit_model.max_bars

(***************************************************************************)
(* C7. A Trade that is not LIQUIDATED has                                  *)
(* pnl_gross_pct * entry_price = (exit_price - entry_price) * 100 *        *)
(* leverage, fees_paid_pct = fees_pct * 2 * leverage and                   *)
(* pnl_pct = pnl_gross_pct - fees_paid_pct.                                *)
(***************************************************************************)
C7_PnlArithmetic ==
    \A k \in Emitted :
        ~Liquidated(k) =>
            /\ RMul(trades[k].pnl_gross_pct, trades[k].entry_price)
                 = RMul(RSub(trades[k].exit_price, trades[k].entry_price),
                        FromInt(100 * leverage))
            /\ trades[k].fees_paid_pct = RMul(fees_pct, FromInt(2 * leverage))
            /\ trades[k].pnl_pct
                 = RSub(trades[k].pnl_gross_pct, trades[k].fees_paid_pct)

\* A leveraged trade closed at its target.
C7_Witness ==
    /\ leverage > 1
    /\ \E k \in Emitted : trades[k].exit_reason = "TP"

(***************************************************************************)
(* C8. With FixedTPSL, ComboExit or AtrComboExit, a Trade whose exit       *)
(* candle touches both the stop and the target is recorded as SL at the    *)
(* stop price.                                                             *)
(***************************************************************************)
C8_StopWinsTie ==
    HasThresholds =>
        \A k \in Emitted :
            (/\ ~Liquidated(k)
             /\ SlTouched(k, trades[k].bars_held)
             /\ TpTouched(k, trades[k].bars_held))
            => /\ trades[k].exit_reason = "SL"
               /\ trades[k].exit_price = SlOf(k)

\* A trade that left on a candle touching both thresholds.
C8_Witness ==
    /\ HasThresholds
    /\ \E k \in Emitted :
          /\ ~Liquidated(k)
          /\ SlTouched(k, trades[k].bars_held)
          /\ TpTouched(k, trades[k].bars_held)

(***************************************************************************)
(* C9. With FixedTPSL, ComboExit or AtrComboExit, a Trade recorded as SL   *)
(* or TP has bars_held = the lowest window offset that touches a           *)
(* threshold (at most max_bars when capped) and exit_price = the stop      *)
(* (SL) or the target (TP); and when the first touch is at offset          *)
(* max_bars itself the Trade is SL or TP, not TIME.                        *)
(***************************************************************************)
C9_FirstTouchWins ==
    HasThresholds =>
        \A k \in Emitted :
            ~Liquidated(k) =>
                /\ trades[k].exit_reason \in {"SL", "TP"} =>
                      /\ trades[k].bars_held \in Touches(k)
                      /\ \A i \in Touches(k) : trades[k].bars_held <= i
                      /\ HasCap => trades[k].bars_held <= exit_model.max_bars
                      /\ trades[k].exit_price
                           = IF trades[k].exit_reason = "SL" THEN SlOf(k)
                             ELSE TpOf(k)
                /\ (/\ HasCap
                    /\ exit_model.max_bars \in Touches(k)
                    /\ \A i \in Touches(k) : exit_model.max_bars <= i)
                   => trades[k].exit_reason \in {"SL", "TP"}

\* A capped trade whose first touch is at offset max_bars = 1.
C9_Witness ==
    /\ CappedWithThresholds
    /\ exit_model.max_bars = 1
    /\ \E k \in Emitted :
          /\ ~Liquidated(k)
          /\ trades[k].bars_held = 1
          /\ trades[k].exit_reason \in {"SL", "TP"}

(***************************************************************************)
(* C10. With ComboExit or AtrComboExit, a Trade whose window touches no    *)
(* threshold at the scanned offsets 0..min(max_bars, len(window) - 1)      *)
(* leaves at the close of the last scanned candle.  As claimed: with       *)
(* reason TIME exactly when the window holds a candle beyond offset        *)
(* max_bars, END_OF_DATA otherwise.                                        *)
(***************************************************************************)
Untouched(k) ==
    /\ CappedWithThresholds
    /\ ~Liquidated(k)
    /\ \A i \in 0..LastScanned(k) : i \notin Touches(k)

C10_TimeNeedsFurtherCandle ==
    \A k \in Emitted :
        Untouched(k) =>
            /\ trades[k].exit_price = WindowRow(k, LastScanned(k)).close
            /\ trades[k].exit_reason =
                 IF exit_model.max_bars + 1 <= WindowLen(k) - 1
                 THEN "TIME" ELSE "END_OF_DATA"

(***************************************************************************)
(* C10, amended.  The reason is TIME exactly when the window holds a       *)
(* candle at offset max_bars (len(window) > max_bars), END_OF_DATA         *)
(* otherwise.                                                              *)
(***************************************************************************)
C10_TimeWhenCapReached ==
    \A k \in Emitted :
        Untouched(k) =>
            /\ trades[k].exit_price = WindowRow(k, LastScanned(k)).close
            /\ trades[k].bars_held = LastScanned(k)
            /\ trades[k].exit_reason =
                 IF exit_model.max_bars <= WindowLen(k) - 1
                 THEN "TIME" ELSE "END_OF_DATA"

\* An untouched trade whose window ends exactly at offset max_bars, and one
\* whose window ends before it.
C10_Witness ==
    /\ \E k \in Emitted :
          /\ Untouched(k)
          /\ WindowLen(k) = exit_model.max_bars + 1
          /\ trades[k].exit_reason = "TIME"
    /\ \E k \in Emitted :
          /\ Untouched(k)
          /\ WindowLen(k) < exit_model.max_bars + 1
          /\ trades[k].exit_reason = "END_OF_DATA"

(***************************************************************************)
(* C14. run_backtest emits exactly one Trade for each true signal at an    *)
(* index s <= len(candles) - 3 and none for a true signal at the last or   *)
(* the second-to-last index; those signals are dropped without raising     *)
(* and the others are still simulated.                                     *)
(***************************************************************************)
\* The true signals that have an entry candle and a non-empty window.
Tradable == SelectSeq(signal_indices(signals), LAMBDA s : s <= Len(df) - 3)

C14_OneTradePerTradableSignal ==
    /\ raised = "NONE"
    /\ pc # "raised"
    /\ pc = "done" => (origin = Tradable /\ Len(trades) = Len(origin))

\* Every signal true: the last two are dropped, the others traded.
C14_Witness ==
    /\ pc = "done"
    /\ \A i \in 1..Len(signals) : signals[i]
    /\ Len(trades) = Len(df) - 2

(***************************************************************************)
(* C15. The trades of the list are in ascending order of their signal      *)
(* index, so entry_time is strictly increasing along the list, liquidated  *)
(* and other trades interleaved in that order.                             *)
(***************************************************************************)
C15_TradesInSignalOrder ==
    \A j, k \in Emitted :
        j < k => /\ origin[j] < origin[k]
                 /\ trades[j].entry_time < trades[k].entry_time

\* A liquidated trade followed by one the exit model closed.
C15_Witness ==
    /\ Len(trades) = 2
    /\ trades[1].exit_reason = "LIQUIDATED"
    /\ trades[2].exit_reason # "LIQUIDATED"

(***************************************************************************)
(* C18. The Trade emitted for the true signal at index s is the one the    *)
(* call emits when s is the only true signal, and a signal is simulated    *)
(* even when the holding period of an earlier trade covers its entry       *)
(* candle.                                                                 *)
(***************************************************************************)
\* The signal sequence whose only true value is at index s.
OnlySignal(s) == [i \in 1..Len(signals) |-> i = s + 1]

\* The index of the candle trade k was closed at.
ExitIdxOf(k) == origin[k] + 2 + trades[k].bars_held

C18_TradesIndependent ==
    pc = "done" =>
        /\ \A k \in Emitted :
              <<trades[k]>> =
                  run_backtest(df, OnlySignal(origin[k]), exit_model, leverage)
        /\ \A s \in 0..(Len(df) - 3) :
              signals[s + 1] => \E k \in Emitted : origin[k] = s

\* Two trades, the second entered while the first was still open.
C18_Witness ==
    /\ pc = "done"
    /\ Len(trades) = 2
    /\ ExitIdxOf(1) > origin[2] + 1

C24_EarlierExitStands ==
    \A k \in Emitted :
        Liquidated(k) => ModelAnswer(k).bars_held >= trades[k].bars_held

(***************************************************************************)
(* The state machine of one get_exit call, followed on its own: the        *)
(* instance exit_model is handed an entry price, a forward window g_frame  *)
(* and the entry candle g_candle.  The four classes without a loop-carried *)
(* value return in one step; the TrailingStop loop is followed row by row, *)
(* g_highs and g_stops recording each value of highest and stop.           *)
(***************************************************************************)
TrailPcts == {FromInt(0), FromInt(1), FromInt(50)}

GetExitModels ==
    { FixedTPSL(FromInt(2), FromInt(1)) }
    \cup { TrailingStop(t) : t \in TrailPcts }
    \cup { TimeBased(m) : m \in 0..MaxCap }
    \cup { ComboExit(FromInt(2), FromInt(1), m) : m \in 0..MaxCap }
    \cup { AtrComboExit(FromInt(2), FromInt(1), m) : m \in 0..MaxCap }

\* A candle that opens and trades wholly below the one before it.
Gap == Shape(90, 91, 89, 90, 1)

WindowShapes == Shapes \cup {Gap}

\* The non-empty forward windows of at most MaxWindow rows.
Windows == UNION { SeriesOver(WindowShapes, n) : n \in 1..MaxWindow }

\* No call of run_backtest is being followed.
NoEngine ==
    /\ df = <<>>
    /\ signals = <<>>
    /\ leverage = 1
    /\ pc = "idle"
    /\ pos = 0
    /\ trades = <<>>
    /\ origin = <<>>
    /\ arg_index = <<>>

InitGetExit ==
    /\ exit_model \in GetExitModels
    /\ g_frame \in Windows
    /\ g_candle \in { WithTs(sh, Timestamp(0)) : sh \in Shapes }
    /\ g_pc = "call"
    /\ g_i = 0
    /\ g_highs = <<>>
    /\ g_stops = <<>>
    /\ g_result = <<>>
    /\ NoEngine
    /\ FirstCall
    /\ NoTools
    /\ NoFactory

\* The entry_price argument of the call.
g_entry_price == EntryPrice(g_candle)

\* What a step of get_exit leaves alone: its arguments, self, and the rest.
GetExitFrame ==
    /\ UNCHANGED <<exit_model, g_frame, g_candle>>
    /\ UNCHANGED <<df, signals, leverage, pc, pos, trades, origin>>
    /\ UNCHANGED <<callerVars, factoryVars, toolVars>>

\* A class whose get_exit has no loop-carried value: call and return.
CallAndReturn ==
    /\ g_pc = "call"
    /\ exit_model.cls # "TrailingStop"
    /\ g_result' = get_exit(exit_model, g_entry_price, g_frame, g_candle)
    /\ g_pc' = "returned"
    /\ UNCHANGED <<g_i, g_highs, g_stops>>
    /\ GetExitFrame

\* TrailingStop.get_exit: highest = entry_price.
TrailEnter ==
    /\ g_pc = "call"
    /\ exit_model.cls = "TrailingStop"
    /\ g_highs' = <<g_entry_price>>
    /\ g_pc' = "scan"
    /\ UNCHANGED <<g_i, g_stops, g_result>>
    /\ GetExitFrame

\* Mutant of g_highest: the low of row g_i tested against the stop of the
\* rows before it, its own high not yet counted.
g_highest_BeforeRow == g_highs[Len(g_highs)]

\* The values of highest and stop the loop computes at row g_i.
g_highest == TrailHighest(g_highs[Len(g_highs)], Row(g_frame, g_i).high)
g_stop == TrailStop(g_highest, exit_model.trail_pct)

\* Row g_i is at or below the stop: return SL.
TrailHit ==
    /\ g_pc = "scan"
    /\ g_i <= Len(g_frame) - 1
    /\ RLe(Row(g_frame, g_i).low, g_stop)
    /\ g_highs' = Append(g_highs, g_highest)
    /\ g_stops' = Append(g_stops, g_stop)
    /\ g_result' = ExitResult(g_stop, "SL", g_i)
    /\ g_pc' = "returned"
    /\ UNCHANGED g_i
    /\ GetExitFrame

\* Row g_i stays above the stop: next row.
TrailPass ==
    /\ g_pc = "scan"
    /\ g_i <= Len(g_frame) - 1
    /\ ~RLe(Row(g_frame, g_i).low, g_stop)
    /\ g_highs' = Append(g_highs, g_highest)
    /\ g_stops' = Append(g_stops, g_stop)
    /\ g_i' = g_i + 1
    /\ UNCHANGED <<g_pc, g_result>>
    /\ GetExitFrame

\* The loop ran out of rows: return the last close.
TrailEnd ==
    /\ g_pc = "scan"
    /\ g_i > Len(g_frame) - 1
    /\ g_result' = ExitResult(Row(g_frame, Len(g_frame) - 1).close,
                              "END_OF_DATA", Len(g_frame) - 1)
    /\ g_pc' = "returned"
    /\ UNCHANGED <<g_i, g_highs, g_stops>>
    /\ GetExitFrame

NextGetExit == CallAndReturn \/ TrailEnter \/ TrailHit \/ TrailPass \/ TrailEnd

SpecGetExit == InitGetExit /\ [][NextGetExit]_vars

(***************************************************************************)
(* Vocabulary of the properties of a get_exit call.                        *)
(***************************************************************************)
Returned(cls) == g_pc = "returned" /\ exit_model.cls = cls
ReturnedCapped == Returned("ComboExit") \/ Returned("AtrComboExit")

g_tp ==
    IF exit_model.cls = "AtrComboExit"
    THEN RAdd(g_entry_price, RMul(g_candle.atr, exit_model.tp_atr_mult))
    ELSE RMul(g_entry_price, exit_model.tp_mult)

g_sl ==
    IF exit_model.cls = "AtrComboExit"
    THEN RSub(g_entry_price, RMul(g_candle.atr, exit_model.sl_atr_mult))
    ELSE RMul(g_entry_price, exit_model.sl_mult)

\* The offsets of g_frame that touch the stop or the target.
g_touches ==
    { i \in 0..(Len(g_frame) - 1) :
        \/ RLe(Row(g_frame, i).low, g_sl)
        \/ RLe(g_tp, Row(g_frame, i).high) }

(***************************************************************************)
(* C11. For a non-empty window and max_bars >= 0, the result of ComboExit  *)
(* and AtrComboExit has 0 <= bars_held <= min(max_bars, len(window) - 1);  *)
(* when the window is shorter than max_bars and touches no threshold,      *)
(* bars_held = len(window) - 1 and the reason is END_OF_DATA.              *)
(***************************************************************************)
C11_BarsHeldWithinScan ==
    ReturnedCapped =>
        /\ 0 <= g_result.bars_held
        /\ g_result.bars_held <= exit_model.max_bars
        /\ g_result.bars_held <= Len(g_frame) - 1
        /\ (Len(g_frame) < exit_model.max_bars /\ g_touches = {})
           => /\ g_result.bars_held = Len(g_frame) - 1
              /\ g_result.reason = "END_OF_DATA"

\* An untouched window of one row under a cap of two.
C11_Witness ==
    /\ ReturnedCapped
    /\ Len(g_frame) < exit_model.max_bars
    /\ g_touches = {}
    /\ g_result.reason = "END_OF_DATA"

(***************************************************************************)
(* C12. TimeBased returns bars_held = min(max_bars, len(window) - 1) and   *)
(* the close of the row at that offset, whatever the highs and lows; the   *)
(* reason is TIME when the window has more than max_bars rows and          *)
(* END_OF_DATA when it ends before offset max_bars.                        *)
(***************************************************************************)
C12_TimeBasedExit ==
    Returned("TimeBased") =>
        /\ g_result.bars_held = Min(exit_model.max_bars, Len(g_frame) - 1)
        /\ g_result.exit_price = g_frame[g_result.bars_held + 1].close
        /\ Len(g_frame) > exit_model.max_bars => g_result.reason = "TIME"
        /\ Len(g_frame) - 1 < exit_model.max_bars
              => g_result.reason = "END_OF_DATA"

\* A TimeBased exit on time, past a first row whose low fell to zero.
C12_Witness ==
    /\ Returned("TimeBased")
    /\ g_result.reason = "TIME"
    /\ g_result.bars_held >= 1
    /\ g_frame[1].low = FromInt(0)

(***************************************************************************)
(* C13. In a TrailingStop scan with 0 <= trail_pct < 100 the running       *)
(* highest high starts at entry_price and never decreases, and the stop    *)
(* levels evaluated at successive rows never decrease and are never below  *)
(* entry_price * (1 - trail_pct / 100).                                    *)
(***************************************************************************)
C13_StopNeverLoosens ==
    (exit_model.cls = "TrailingStop" /\ g_highs # <<>>) =>
        /\ g_highs[1] = g_entry_price
        /\ \A i \in 1..(Len(g_highs) - 1) : RLe(g_highs[i], g_highs[i + 1])
        /\ \A i \in 1..(Len(g_stops) - 1) : RLe(g_stops[i], g_stops[i + 1])
        /\ \A i \in 1..Len(g_stops) :
              RLe(RMul(g_entry_price,
                       RSub(FromInt(1), exit_model.trail_pct)),
                  g_stops[i])

\* A scan that has raised its stop from one row to the next.
C13_Witness ==
    /\ exit_model.cls = "TrailingStop"
    /\ Len(g_stops) >= 2
    /\ g_stops[1] # g_stops[2]

(***************************************************************************)
(* Two successive calls of run_backtest by one caller, with the same       *)
(* objects: the frame df, whose index labels are arg_index, the signals    *)
(* and the exit model instance.  first is the list the first call          *)
(* returned.                                                               *)
(***************************************************************************)
\* The index labels of a frame cut out of a longer one: n rows from label n.
SliceIndex(n) == [i \in 1..n |-> n + i - 1]

InitCalls ==
    /\ df \in SeriesOf(CallCandles)
    /\ signals \in [1..CallCandles -> BOOLEAN]
    /\ exit_model \in ExitModels
    /\ leverage \in Leverages
    /\ pc = "call"
    /\ pos = 0
    /\ trades = <<>>
    /\ origin = <<>>
    /\ arg_index = SliceIndex(CallCandles)
    /\ FirstCall
    /\ NoTools
    /\ NoGetExit
    /\ NoFactory

\* Mutant of Enter: the list of trades outlives the call (a shared default).
Enter_KeepsTrades ==
    /\ pc = "call"
    /\ pos' = 0
    /\ pc' = "loop"
    /\ UNCHANGED <<df, signals, exit_model, leverage, trades, origin>>
    /\ UNCHANGED <<callerVars, getExitVars, factoryVars, toolVars>>

\* Mutant of Enter: reset_index(drop=True, inplace=True) on the argument.
Enter_Inplace ==
    /\ pc = "call"
    /\ trades' = <<>>
    /\ origin' = <<>>
    /\ pos' = 0
    /\ pc' = "loop"
    /\ arg_index' = RangeIndex(Len(df))
    /\ UNCHANGED <<df, signals, exit_model, leverage>>
    /\ UNCHANGED <<call, first, raised, getExitVars, factoryVars, toolVars>>

\* trades = []; df and signals rebound to re-indexed copies, the caller's
\* objects keeping their labels; signal_indices computed.
Enter ==
    /\ pc = "call"
    /\ trades' = <<>>
    /\ origin' = <<>>
    /\ pos' = 0
    /\ pc' = "loop"
    /\ UNCHANGED <<df, signals, exit_model, leverage>>
    /\ UNCHANGED <<callerVars, getExitVars, factoryVars, toolVars>>

\* The caller keeps the list returned and calls again with the same objects.
Again ==
    /\ pc = "done"
    /\ call = 1
    /\ first' = trades
    /\ call' = 2
    /\ pc' = "call"
    /\ UNCHANGED <<df, signals, exit_model, leverage, pos, trades, origin>>
    /\ UNCHANGED <<arg_index, raised, getExitVars, factoryVars, toolVars>>

NextCalls ==
    \/ Enter
    \/ SkipNoEntry
    \/ SkipEmptyWindow
    \/ Liquidate
    \/ ExitByModel
    \/ Return
    \/ Again

SpecCalls == InitCalls /\ [][NextCalls]_vars

C17_InputsUnchanged ==
    [][/\ df' = df
       /\ arg_index' = arg_index
       /\ signals' = signals
       /\ exit_model' = exit_model]_vars

\* A call that produced a trade, the caller's frame keeping its labels.
C17_Witness ==
    /\ pc = "done"
    /\ trades # <<>>
    /\ arg_index = SliceIndex(Len(df))
    /\ arg_index # RangeIndex(Len(df))

(***************************************************************************)
(* One call of run_backtest with an AtrComboExit over a frame that has or  *)
(* has not the atr column.  get_exit raises ValueError when the entry      *)
(* candle has no atr; the engine catches TypeError only.                   *)
(***************************************************************************)
\* A candle of a frame without the atr column.
WithoutAtr(candle) ==
    [timestamp |-> candle.timestamp, open |-> candle.open,
     high |-> candle.high, low |-> candle.low, close |-> candle.close]

BareSeries == { [i \in 1..NumCandles |-> WithoutAtr(f[i])] : f \in Series }

AtrModels == { AtrComboExit(FromInt(2), FromInt(1), m) : m \in 0..MaxBars }

InitAtr ==
    /\ df \in Series \cup BareSeries
    /\ signals \in [1..NumCandles -> BOOLEAN]
    /\ exit_model \in AtrModels
    /\ leverage \in Leverages
    /\ pc = "loop"
    /\ pos = 0
    /\ trades = <<>>
    /\ origin = <<>>
    /\ arg_index = RangeIndex(NumCandles)
    /\ FirstCall
    /\ NoTools
    /\ NoGetExit
    /\ NoFactory

\* raise ValueError(...) in AtrComboExit.get_exit.
AtrError == "ValueError"

\* except TypeError: the only exception of get_exit the engine handles.
Caught(exc) == exc = "TypeError"

\* Mutant of Raise: the failure of get_exit swallowed, the signal passed over.
Raise_Swallowed ==
    /\ InLoop
    /\ sig_idx + 1 < Len(df)
    /\ FutureDf(df, sig_idx + 1) # <<>>
    /\ LiqAt(sig_idx) < 0
    /\ AtrMissing(exit_model, Row(df, sig_idx + 1))
    /\ UNCHANGED <<trades, origin>>
    /\ Continue

\* Not liquidated, and get_exit raises: the exception leaves run_backtest.
Raise ==
    /\ InLoop
    /\ sig_idx + 1 < Len(df)
    /\ FutureDf(df, sig_idx + 1) # <<>>
    /\ LiqAt(sig_idx) < 0
    /\ AtrMissing(exit_model, Row(df, sig_idx + 1))
    /\ ~Caught(AtrError)
    /\ pc' = "raised"
    /\ raised' = AtrError
    /\ UNCHANGED <<df, signals, exit_model, leverage, pos, trades, origin>>
    /\ UNCHANGED <<arg_index, call, first, getExitVars, factoryVars, toolVars>>

NextAtr ==
    \/ SkipNoEntry
    \/ SkipEmptyWindow
    \/ Liquidate
    \/ ExitByModel
    \/ Raise
    \/ Return

SpecAtr == InitAtr /\ [][NextAtr]_vars

\* The frame of the call has no atr column.
LacksAtr == \A i \in 1..Len(df) : "atr" \notin DOMAIN df[i]

(***************************************************************************)
(* C19, as stated.  With AtrComboExit over candles that lack atr, the call *)
(* does not return a list whenever some true signal has an entry candle    *)
(* and a non-empty forward window.                                         *)
(***************************************************************************)
C19_NeverReturnsWithoutAtr ==
    (LacksAtr /\ Tradable # <<>>) => pc # "done"

(***************************************************************************)
(* C19, amended.  With AtrComboExit over candles that lack atr, the call   *)
(* returns a list only when every true signal with an entry candle and a   *)
(* non-empty forward window is liquidated; otherwise it ends in the        *)
(* ValueError of get_exit, which the TypeError handler does not catch.     *)
(***************************************************************************)
C19_RaisesUnlessAllLiquidated ==
    LacksAtr =>
        /\ pc = "done" =>
              \A k \in 1..Len(Tradable) : LiqAt(Tradable[k]) >= 0
        /\ pc = "raised" => (raised = "ValueError" /\ ~Caught(raised))

\* A liquidated trade, then the failure at the next signal.
C19_Witness ==
    /\ LacksAtr
    /\ pc = "raised"
    /\ raised = "ValueError"
    /\ Len(trades) = 1

(***************************************************************************)
(* framework/exit_models.py: build_exit_model(name, params).               *)
(***************************************************************************)
\* The keys of the models dict.
ModelNames ==
    {"FixedTPSL", "TrailingStop", "TimeBased", "ComboExit", "AtrComboExit"}

\* The keys each lambda reads from p, in the order it reads them.
Required(name) ==
    CASE name = "FixedTPSL"    -> <<"tp_pct", "sl_pct">>
      [] name = "TrailingStop" -> <<"trail_pct">>
      [] name = "TimeBased"    -> <<"max_hours">>
      [] name = "ComboExit"    -> <<"tp_pct", "sl_pct", "max_hours">>
      [] name = "AtrComboExit" -> <<"tp_atr_mult", "sl_atr_mult", "max_hours">>

\* The keys p[...] raises KeyError for, in the order the lambda meets them.
MissingKeys(name, params) ==
    SelectSeq(Required(name), LAMBDA k : k \notin DOMAIN params)

\* models[name](params), every key it reads being present.
Construct(name, p) ==
    CASE name = "FixedTPSL"    -> FixedTPSL(p["tp_pct"], p["sl_pct"])
      [] name = "TrailingStop" -> TrailingStop(p["trail_pct"])
      [] name = "TimeBased"    -> TimeBased(p["max_hours"])
      [] name = "ComboExit"    ->
            ComboExit(p["tp_pct"], p["sl_pct"], p["max_hours"])
      [] name = "AtrComboExit" ->
            AtrComboExit(p["tp_atr_mult"], p["sl_atr_mult"], p["max_hours"])

\* How a call ends: with an exception, or with the instance it returns.
Raises(exc) == [exc |-> exc, model |-> <<>>]
Returns(model) == [exc |-> "NONE", model |-> model]

\* Mutant of build_exit_model: an unknown name falls back to a ComboExit.
build_exit_model_FallsBack(name, params) ==
    IF name \notin ModelNames
    THEN Returns(ComboExit(FromInt(2), FromInt(1), 1))
    ELSE IF MissingKeys(name, params) # <<>> THEN Raises("KeyError")
    ELSE Returns(Construct(name, params))

build_exit_model(name, params) ==
    IF name \notin ModelNames THEN Raises("ValueError")
    ELSE IF MissingKeys(name, params) # <<>> THEN Raises("KeyError")
    ELSE Returns(Construct(name, params))

(***************************************************************************)
(* One call of build_exit_model, before any call of run_backtest.          *)
(***************************************************************************)
\* The parameter names of config files: those of the five classes, and
\* max_bars, which no lambda reads.
ParamNames ==
    {"tp_pct", "sl_pct", "trail_pct", "max_hours", "tp_atr_mult",
     "sl_atr_mult", "max_bars"}

ParamValue(k) ==
    CASE k \in {"tp_pct", "tp_atr_mult"} -> FromInt(2)
      [] k \in {"sl_pct", "sl_atr_mult", "trail_pct"} -> FromInt(1)
      [] k \in {"max_hours", "max_bars"} -> 1

ParamMaps == { [k \in S |-> ParamValue(k)] : S \in SUBSET ParamNames }

InitFactory ==
    /\ b_name \in ModelNames \cup {"Martingale"}
    /\ b_params \in ParamMaps
    /\ b_pc = "call"
    /\ b_built = <<>>
    /\ exit_model = <<>>
    /\ NoEngine
    /\ FirstCall
    /\ NoTools
    /\ NoGetExit

FactoryFrame ==
    /\ UNCHANGED <<b_name, b_params>>
    /\ UNCHANGED <<engineVars, arg_index, call, first, getExitVars, toolVars>>

\* return models[name](params)
Build ==
    /\ b_pc = "call"
    /\ build_exit_model(b_name, b_params).exc = "NONE"
    /\ b_built' = build_exit_model(b_name, b_params).model
    /\ b_pc' = "built"
    /\ UNCHANGED raised
    /\ FactoryFrame

\* raise ValueError for an unknown name, KeyError from p[...].
BuildRaises ==
    /\ b_pc = "call"
    /\ build_exit_model(b_name, b_params).exc # "NONE"
    /\ raised' = build_exit_model(b_name, b_params).exc
    /\ b_pc' = "raised"
    /\ UNCHANGED b_built
    /\ FactoryFrame

NextFactory == Build \/ BuildRaises

SpecFactory == InitFactory /\ [][NextFactory]_vars

(***************************************************************************)
(* C20. build_exit_model raises, before any simulation, when the name is   *)
(* not one of the five classes or when a parameter the named class needs   *)
(* is absent from the map; otherwise it returns an instance of the named   *)
(* class.                                                                  *)
(***************************************************************************)
\* Some parameter the class named b_name needs is absent from b_params.
ParamAbsent ==
    \E i \in 1..Len(Required(b_name)) :
        Required(b_name)[i] \notin DOMAIN b_params

ParamExtra ==
    \E k \in DOMAIN b_params :
        \A i \in 1..Len(Required(b_name)) : Required(b_name)[i] # k

C21_ExtraParamsRejected ==
    (b_pc # "call" /\ b_name \in ModelNames /\ ParamExtra) => b_pc = "raised"

(***************************************************************************)
(* C23. TrailingStop exits at the first offset i whose low is at or below  *)
(* H_i * (1 - trail_pct / 100), H_i being the maximum of entry_price and   *)
(* the highs of rows 0..i, with reason SL at that stop level; when no row  *)
(* qualifies it exits at the last close with END_OF_DATA and               *)
(* bars_held = len(window) - 1.  It never answers TP or TIME.              *)
(***************************************************************************)
\* H_i: the maximum of the entry price and the highs of rows 0..i.
RECURSIVE HighUpTo(_)
HighUpTo(i) ==
    IF i < 0 THEN g_entry_price
    ELSE RMax(HighUpTo(i - 1), Row(g_frame, i).high)

StopLevel(i) == RMul(HighUpTo(i), RSub(FromInt(1), exit_model.trail_pct))

\* The offsets whose low is at or below their stop level.
StopTouched ==
    { i \in 0..(Len(g_frame) - 1) : RLe(Row(g_frame, i).low, StopLevel(i)) }

C23_TrailingStopExit ==
    Returned("TrailingStop") =>
        /\ g_result.reason \in {"SL", "END_OF_DATA"}
        /\ g_result = TrailingStop_get_exit(exit_model, g_entry_price, g_frame)
        /\ IF StopTouched # {}
           THEN /\ g_result.reason = "SL"
                /\ g_result.bars_held \in StopTouched
                /\ \A i \in StopTouched : g_result.bars_held <= i
                /\ g_result.exit_price = StopLevel(g_result.bars_held)
           ELSE /\ g_result.reason = "END_OF_DATA"
                /\ g_result.bars_held = Len(g_frame) - 1
                /\ g_result.exit_price = Row(g_frame, Len(g_frame) - 1).close

\* A stop hit at the second row, at a level the first row's high had set.
C23_Witness ==
    /\ Returned("TrailingStop")
    /\ g_result.reason = "SL"
    /\ g_result.bars_held = 1
    /\ HighUpTo(1) = Row(g_frame, 0).high

(***************************************************************************)
(* C25. Over candles with low <= open and close <= high, the exit_price    *)
(* an exit model returns lies between the low and the high of the row it   *)
(* exits at, also when that row gaps through the stop or the target.       *)
(***************************************************************************)
WellFormed(frame) ==
    \A i \in 1..Len(frame) :
        /\ RLe(frame[i].low, frame[i].open)
        /\ RLe(frame[i].low, frame[i].close)
        /\ RLe(frame[i].open, frame[i].high)
        /\ RLe(frame[i].close, frame[i].high)

\* The row of the window the call exits at.
ExitRow == Row(g_frame, g_result.bars_held)

C25_FillWithinExitCandle ==
    (g_pc = "returned" /\ WellFormed(g_frame)) =>
        /\ RLe(ExitRow.low, g_result.exit_price)
        /\ RLe(g_result.exit_price, ExitRow.high)

(***************************************************************************)
(* One call of run_backtest with leverage up to the one at which the       *)
(* liquidation price entry_price * (1 - 1/leverage + 0.005) reaches the    *)
(* entry price, and with an exit model whose target is the entry price.    *)
(***************************************************************************)
\* The leverage at which 1/leverage equals the 0.005 maintenance buffer.
BufferLeverage == 200

HighLeverages == {5, BufferLeverage}

TargetAtEntry == FixedTPSL(FromInt(0), FromInt(1))

InitLeverage ==
    /\ df \in SeriesOf(LevCandles)
    /\ signals \in [1..LevCandles -> BOOLEAN]
    /\ exit_model \in ExitModels \cup {TargetAtEntry}
    /\ leverage \in HighLeverages
    /\ pc = "loop"
    /\ pos = 0
    /\ trades = <<>>
    /\ origin = <<>>
    /\ arg_index = RangeIndex(LevCandles)
    /\ FirstCall
    /\ NoTools
    /\ NoGetExit
    /\ NoFactory

SpecLeverage == InitLeverage /\ [][Next]_vars

\* x < y over the rationals.
RLt(x, y) == ~RLe(y, x)

\* The premises on trade k: every row of its window has 0 < low <= close
\* <= high, and the target of its exit model, if any, is not below entry.
PositiveWindow(k) ==
    \A i \in Offsets(k) :
        /\ RLt(FromInt(0), WindowRow(k, i).low)
        /\ RLe(WindowRow(k, i).low, WindowRow(k, i).close)
        /\ RLe(WindowRow(k, i).close, WindowRow(k, i).high)

TargetNotBelowEntry(k) ==
    HasThresholds => RLe(trades[k].entry_price, TpOf(k))

Escaped(k) ==
    /\ leverage > 1
    /\ ~Liquidated(k)
    /\ PositiveWindow(k)
    /\ TargetNotBelowEntry(k)

(***************************************************************************)
(* C26, as stated.  With leverage > 1, a Trade that is not LIQUIDATED has  *)
(* exit_price above the liquidation price, hence pnl_gross_pct > -100.     *)
(***************************************************************************)
C26_EscapedAboveLiquidation ==
    \A k \in Emitted :
        Escaped(k) =>
            /\ RLt(LiqPriceOf(k), trades[k].exit_price)
            /\ RLt(FromInt(-100), trades[k].pnl_gross_pct)

(***************************************************************************)
(* C26, amended.  With leverage > 1, a Trade that is not LIQUIDATED has    *)
(* pnl_gross_pct > -100, and, when leverage < 200, so that the             *)
(* liquidation price is below the entry price, exit_price above the        *)
(* liquidation price.                                                      *)
(***************************************************************************)
C26_EscapedKeepsCollateral ==
    \A k \in Emitted :
        Escaped(k) =>
            /\ RLt(FromInt(-100), trades[k].pnl_gross_pct)
            /\ leverage < BufferLeverage
                  => RLt(LiqPriceOf(k), trades[k].exit_price)

\* A leveraged trade stopped out at a loss, above the liquidation price.
C26_Witness ==
    \E k \in Emitted :
        /\ Escaped(k)
        /\ leverage < BufferLeverage
        /\ trades[k].exit_reason = "SL"
        /\ RLt(trades[k].pnl_gross_pct, FromInt(0))

(***************************************************************************)
(* walkforward.py: one window of main.  optimize tries every combination   *)
(* of param_grid on the training years through hypo.set_params and         *)
(* run_years; main then installs the best combination and calls run_years  *)
(* on the validation year.                                                 *)
(***************************************************************************)
\* param_grid of the module docstring: a flat key and an exit_params key.
GridKeys == <<"PIVOT_WINDOW", "exit_params.tp_pct">>
GridValues == << <<2, 3>>, <<FromInt(4), FromInt(5)>> >>

\* list(itertools.product(*param_grid.values())), each as dict(zip(keys, combo)).
Combos ==
    [n \in 1..(Len(GridValues[1]) * Len(GridValues[2])) |->
        [k \in {GridKeys[1], GridKeys[2]} |->
            IF k = GridKeys[1]
            THEN GridValues[1][((n - 1) \div Len(GridValues[2])) + 1]
            ELSE GridValues[2][((n - 1) % Len(GridValues[2])) + 1]]]

\* k.startswith("exit_params.") and k.split(".")[1], for the keys of the grid.
IsExitKey(k) == k \in {"exit_params.tp_pct"}
SubKey(k) == CASE k = "exit_params.tp_pct" -> "tp_pct" [] OTHER -> k

\* set_params: the instance attributes after setattr(self, k, v) ...
SetAttrs(attrs, params) ==
    LET flat == { k \in DOMAIN params : ~IsExitKey(k) }
    IN  [a \in DOMAIN attrs \cup flat |->
            IF a \in flat THEN params[a] ELSE attrs[a]]

\* ... and the exit_params dict after self.exit_params[sub_k] = v.
SetExitParams(exit_params, params) ==
    LET nested == { k \in DOMAIN params : IsExitKey(k) }
        subs == { SubKey(k) : k \in nested }
    IN  [a \in DOMAIN exit_params \cup subs |->
            IF a \in subs
            THEN params[CHOOSE k \in nested : SubKey(k) = a]
            ELSE exit_params[a]]

\* config.get("exit_model", "ComboExit")
exit_model_name == "ComboExit"

\* optimize(..., min_trades=10)
MinTrades == 10

\* What run_years reads from the hypothesis: its attributes, and the exit
\* model it builds from exit_model_name and exit_params.
RunOf(years, attrs, exit_params) ==
    [years |-> years, attrs |-> attrs,
     model |-> build_exit_model(exit_model_name, exit_params).model]

\* The metrics of a run: none (no trades), or those compute_metrics returns.
NoMetrics == <<>>
Metrics(n, sharpe, ret) ==
    <<[total_trades |-> n, sharpe_ratio |-> sharpe, total_return_pct |-> ret]>>

MetricChoices ==
    { NoMetrics, Metrics(9, 2, 2), Metrics(10, 0, 1), Metrics(10, 1, 0),
      Metrics(11, 1, 1) }

\* The parameter values the training metrics depend on.
TableKeys ==
    { <<a, t>> : a \in {GridValues[1][i] : i \in 1..Len(GridValues[1])},
                 t \in {GridValues[2][i] : i \in 1..Len(GridValues[2])} }

\* run_years(hypo, symbol, train_years) for a hypothesis in this state.
TrainMetrics(attrs, exit_params) ==
    w_table[<<attrs["PIVOT_WINDOW"], exit_params["tp_pct"]>>]

\* score = m["sharpe_ratio"] if sort_by == "sharpe" else m["total_return_pct"]
Score(m, sort_by) ==
    IF sort_by = "sharpe" THEN m.sharpe_ratio ELSE m.total_return_pct

\* Mutant of Better: a later combination wins a tie.
Better_OrEqual(score, best_score) ==
    IF best_score = <<>> THEN TRUE ELSE score >= best_score[1]

\* score > best_score, best_score starting at -inf (the empty sequence).
Better(score, best_score) ==
    IF best_score = <<>> THEN TRUE ELSE score > best_score[1]

InitWalk ==
    /\ h_attrs \in { [a \in {"PIVOT_WINDOW"} |-> v] : v \in {2, 3} }
    /\ h_exit_params \in
          { [a \in {"tp_pct", "sl_pct", "max_hours"} |->
                CASE a = "tp_pct" -> t
                  [] a = "sl_pct" -> FromInt(1)
                  [] a = "max_hours" -> 48] : t \in {FromInt(4), FromInt(5)} }
    /\ w_table \in [TableKeys -> MetricChoices]
    /\ w_sort \in {"sharpe", "net_return"}
    /\ w_pc = "window"
    /\ w_i = 0
    /\ w_best_score = <<>>
    /\ w_best_params = <<>>
    /\ w_best = <<>>
    /\ w_runs = <<>>
    /\ exit_model = <<>>
    /\ NoEngine
    /\ FirstCall
    /\ NoGetExit
    /\ NoFactory
    /\ NoFetch
    /\ NoSignals

WalkFrame ==
    /\ UNCHANGED <<w_table, w_sort>>
    /\ UNCHANGED <<engineVars, callerVars, getExitVars, factoryVars>>
    /\ UNCHANGED <<fetchVars, signalVars>>

\* optimize: best = None, best_score = -inf, best_params = None.
OptimizeEnter ==
    /\ w_pc = "window"
    /\ w_pc' = "grid"
    /\ w_i' = 1
    /\ w_best_score' = <<>>
    /\ w_best_params' = <<>>
    /\ w_best' = <<>>
    /\ UNCHANGED <<h_attrs, h_exit_params, w_runs>>
    /\ WalkFrame

\* The state of the hypothesis after set_params(Combos[w_i]), and the
\* metrics of the training run made in that state.
TriedAttrs == SetAttrs(h_attrs, Combos[w_i])
TriedExitParams == SetExitParams(h_exit_params, Combos[w_i])
TriedMetrics == TrainMetrics(TriedAttrs, TriedExitParams)

InGrid == w_pc = "grid" /\ w_i <= Len(Combos)

\* set_params and run_years, common to every pass of the loop.
TryCombo ==
    /\ h_attrs' = TriedAttrs
    /\ h_exit_params' = TriedExitParams
    /\ w_runs' = Append(w_runs, RunOf("train", TriedAttrs, TriedExitParams))
    /\ w_i' = w_i + 1
    /\ UNCHANGED w_pc
    /\ WalkFrame

\* m is None or m["total_trades"] < min_trades: continue.
ComboRejected ==
    /\ InGrid
    /\ IF TriedMetrics = NoMetrics THEN TRUE
       ELSE TriedMetrics[1].total_trades < MinTrades
    /\ UNCHANGED <<w_best_score, w_best_params, w_best>>
    /\ TryCombo

\* The score does not beat best_score.
ComboBeaten ==
    /\ InGrid
    /\ TriedMetrics # NoMetrics
    /\ TriedMetrics[1].total_trades >= MinTrades
    /\ ~Better(Score(TriedMetrics[1], w_sort), w_best_score)
    /\ UNCHANGED <<w_best_score, w_best_params, w_best>>
    /\ TryCombo

\* score > best_score: the combination becomes the best one.
ComboBest ==
    /\ InGrid
    /\ TriedMetrics # NoMetrics
    /\ TriedMetrics[1].total_trades >= MinTrades
    /\ Better(Score(TriedMetrics[1], w_sort), w_best_score)
    /\ w_best_score' = <<Score(TriedMetrics[1], w_sort)>>
    /\ w_best' = TriedMetrics
    /\ w_best_params' = <<Combos[w_i]>>
    /\ TryCombo

\* return best_params, best
OptimizeReturn ==
    /\ w_pc = "grid"
    /\ w_i > Len(Combos)
    /\ w_pc' = "returned"
    /\ UNCHANGED <<h_attrs, h_exit_params, w_i, w_runs>>
    /\ UNCHANGED <<w_best_score, w_best_params, w_best>>
    /\ WalkFrame

\* if best_params is None: continue
NoResult ==
    /\ w_pc = "returned"
    /\ w_best_params = <<>>
    /\ w_pc' = "skipped"
    /\ UNCHANGED <<h_attrs, h_exit_params, w_i, w_runs>>
    /\ UNCHANGED <<w_best_score, w_best_params, w_best>>
    /\ WalkFrame

\* Mutant of Validate: the validation run made without set_params.
Validate_AsLeft ==
    /\ w_pc = "returned"
    /\ w_best_params # <<>>
    /\ w_runs' = Append(w_runs, RunOf("validate", h_attrs, h_exit_params))
    /\ w_pc' = "validated"
    /\ UNCHANGED <<h_attrs, h_exit_params, w_i>>
    /\ UNCHANGED <<w_best_score, w_best_params, w_best>>
    /\ WalkFrame

\* hypo.set_params(best_params); run_years(hypo, symbol, [val_year])
Validate ==
    /\ w_pc = "returned"
    /\ w_best_params # <<>>
    /\ h_attrs' = SetAttrs(h_attrs, w_best_params[1])
    /\ h_exit_params' = SetExitParams(h_exit_params, w_best_params[1])
    /\ w_runs' = Append(w_runs, RunOf("validate", h_attrs', h_exit_params'))
    /\ w_pc' = "validated"
    /\ UNCHANGED w_i
    /\ UNCHANGED <<w_best_score, w_best_params, w_best>>
    /\ WalkFrame

NextWalk ==
    \/ OptimizeEnter
    \/ ComboRejected
    \/ ComboBeaten
    \/ ComboBest
    \/ OptimizeReturn
    \/ NoResult
    \/ Validate

SpecWalk == InitWalk /\ [][NextWalk]_vars

(***************************************************************************)
(* C27. The validation run of a window is made with every grid parameter   *)
(* at its value in the best training combination, whatever combination     *)
(* the grid search tried last, with no further training run, and with an   *)
(* exit model built from the exit_params set_params has updated.           *)
(***************************************************************************)
LastRun == w_runs[Len(w_runs)]

C27_ValidationUsesBestParams ==
    w_pc = "validated" =>
        /\ Len(w_runs) = Len(Combos) + 1
        /\ \A i \in 1..Len(Combos) : w_runs[i].years = "train"
        /\ LastRun.years = "validate"
        /\ LastRun.attrs["PIVOT_WINDOW"] = w_best_params[1]["PIVOT_WINDOW"]
        /\ LastRun.model =
               ComboExit(w_best_params[1]["exit_params.tp_pct"],
                         h_exit_params["sl_pct"], h_exit_params["max_hours"])
        /\ LastRun.model = build_exit_model(exit_model_name, h_exit_params).model

\* A validation whose parameters both differ from the last combination.
C27_Witness ==
    /\ w_pc = "validated"
    /\ w_best_params[1]["PIVOT_WINDOW"] # Combos[Len(Combos)]["PIVOT_WINDOW"]
    /\ w_best_params[1]["exit_params.tp_pct"]
           # Combos[Len(Combos)]["exit_params.tp_pct"]
    /\ LastRun.attrs["PIVOT_WINDOW"] = w_best_params[1]["PIVOT_WINDOW"]

(***************************************************************************)
(* C28. optimize returns the combination with the highest score, by        *)
(* Sharpe or by total return as sort_by says, among those whose training   *)
(* run made at least min_trades trades, the earliest in grid order on a    *)
(* tie, and (None, None) when no combination qualifies.                    *)
(***************************************************************************)
\* The training metrics of combination i, whatever state the hypothesis is in.
TrainOf(i) ==
    w_table[<<Combos[i]["PIVOT_WINDOW"], Combos[i]["exit_params.tp_pct"]>>]

Qualifying ==
    { i \in 1..Len(Combos) :
        TrainOf(i) # NoMetrics /\ TrainOf(i)[1].total_trades >= MinTrades }

ScoreOf(i) ==
    IF w_sort = "sharpe" THEN TrainOf(i)[1].sharpe_ratio
    ELSE TrainOf(i)[1].total_return_pct

C28_OptimizeReturnsBest ==
    w_pc = "returned" =>
        IF Qualifying = {}
        THEN w_best_params = <<>> /\ w_best = <<>>
        ELSE \E i \in Qualifying :
                /\ w_best_params = <<Combos[i]>>
                /\ w_best = TrainOf(i)
                /\ \A j \in Qualifying :
                      /\ ScoreOf(j) <= ScoreOf(i)
                      /\ ScoreOf(j) = ScoreOf(i) => i <= j

\* The first of two combinations tied at the top, past one with too few trades.
C28_Witness ==
    /\ w_pc = "returned"
    /\ w_best_params = <<Combos[2]>>
    /\ 1 \notin Qualifying
    /\ TrainOf(1) # NoMetrics
    /\ 3 \in Qualifying
    /\ ScoreOf(3) = ScoreOf(2)

(***************************************************************************)
(* downloader.py: one call of _fetch_klines.  Timestamps are integers, the *)
(* range starts at 0, and a page holds at most PageLimit rows (the limit   *)
(* of 1000 of the request, scaled down).  A row is its timestamp.          *)
(***************************************************************************)
MaxEnd == 5
PageLimit == 2
MaxRateLimits == 6

\* for attempt in range(5)
Attempts == 5

\* The local variable data: unbound, or bound to a list of rows.
Unbound == <<>>
Bound(rows) == <<rows>>

\* What a successful request can answer from startTime: up to PageLimit
\* consecutive rows not past endTime, none when the exchange has no more.
PageFrom(start, n) == [i \in 1..n |-> start + i - 1]
Pages(start, end) ==
    { PageFrom(start, n) : n \in { m \in 0..PageLimit : start + m - 1 <= end } }

InitFetch ==
    /\ d_pc = "while"
    /\ d_end \in 1..MaxEnd
    /\ d_start = 0
    /\ d_attempt = 0
    /\ d_limited = 0
    /\ d_data = Unbound
    /\ d_rows = <<>>
    /\ d_raised = "NONE"
    /\ exit_model = <<>>
    /\ NoEngine
    /\ FirstCall
    /\ NoGetExit
    /\ NoFactory
    /\ NoWalkForward
    /\ NoSignals

FetchFrame ==
    /\ UNCHANGED d_end
    /\ UNCHANGED <<engineVars, callerVars, getExitVars, factoryVars>>
    /\ UNCHANGED <<walkVars, signalVars>>

\* while current_start < end_ms: the for loop starts at attempt 0.
NextPage ==
    /\ d_pc = "while"
    /\ d_start < d_end
    /\ d_pc' = "for"
    /\ d_attempt' = 0
    /\ UNCHANGED <<d_start, d_limited, d_data, d_rows, d_raised>>
    /\ FetchFrame

\* The while condition fails: the rows gathered are returned.
RangeDone ==
    /\ d_pc = "while"
    /\ d_start >= d_end
    /\ d_pc' = "returned"
    /\ UNCHANGED <<d_start, d_attempt, d_limited, d_data, d_rows, d_raised>>
    /\ FetchFrame

\* The request succeeds: data = resp.json(); break.
Fetched ==
    /\ d_pc = "for"
    /\ \E rows \in Pages(d_start, d_end) : d_data' = Bound(rows)
    /\ d_pc' = "page"
    /\ UNCHANGED <<d_start, d_attempt, d_limited, d_rows, d_raised>>
    /\ FetchFrame

\* status_code == 429: sleep and continue.  After the last attempt the for
\* loop is exhausted and control reaches "if not data" with data as it was.
RateLimited ==
    /\ d_pc = "for"
    /\ d_limited < MaxRateLimits
    /\ d_limited' = d_limited + 1
    /\ IF d_attempt + 1 < Attempts
       THEN d_attempt' = d_attempt + 1 /\ UNCHANGED d_pc
       ELSE d_pc' = "page" /\ UNCHANGED d_attempt
    /\ UNCHANGED <<d_start, d_data, d_rows, d_raised>>
    /\ FetchFrame

\* requests.get, raise_for_status or json raises: RuntimeError on the last
\* attempt, otherwise sleep and try again.
RequestFailed ==
    /\ d_pc = "for"
    /\ IF d_attempt = Attempts - 1
       THEN /\ d_pc' = "raised"
            /\ d_raised' = "RuntimeError"
            /\ UNCHANGED d_attempt
       ELSE /\ d_attempt' = d_attempt + 1
            /\ UNCHANGED <<d_pc, d_raised>>
    /\ UNCHANGED <<d_start, d_limited, d_data, d_rows>>
    /\ FetchFrame

\* "if not data" reads a name that was never assigned.
DataUnbound ==
    /\ d_pc = "page"
    /\ d_data = Unbound
    /\ d_pc' = "raised"
    /\ d_raised' = "UnboundLocalError"
    /\ UNCHANGED <<d_start, d_attempt, d_limited, d_data, d_rows>>
    /\ FetchFrame

\* if not data: break
EmptyPage ==
    /\ d_pc = "page"
    /\ d_data = Bound(<<>>)
    /\ d_pc' = "returned"
    /\ UNCHANGED <<d_start, d_attempt, d_limited, d_data, d_rows, d_raised>>
    /\ FetchFrame

\* all_rows.extend(data); fewer than the limit: break.
ShortPage ==
    /\ d_pc = "page"
    /\ d_data # Unbound
    /\ d_data # Bound(<<>>)
    /\ Len(d_data[1]) < PageLimit
    /\ d_rows' = d_rows \o d_data[1]
    /\ d_pc' = "returned"
    /\ UNCHANGED <<d_start, d_attempt, d_limited, d_data, d_raised>>
    /\ FetchFrame

\* all_rows.extend(data); current_start = last_ts + 1
FullPage ==
    /\ d_pc = "page"
    /\ d_data # Unbound
    /\ d_data # Bound(<<>>)
    /\ Len(d_data[1]) >= PageLimit
    /\ d_rows' = d_rows \o d_data[1]
    /\ d_start' = d_data[1][Len(d_data[1])] + 1
    /\ d_pc' = "while"
    /\ UNCHANGED <<d_attempt, d_limited, d_data, d_raised>>
    /\ FetchFrame

NextFetch ==
    \/ NextPage
    \/ RangeDone
    \/ Fetched
    \/ RateLimited
    \/ RequestFailed
    \/ DataUnbound
    \/ EmptyPage
    \/ ShortPage
    \/ FullPage

SpecFetch == InitFetch /\ [][NextFetch]_vars

(***************************************************************************)
(* C29. _fetch_klines appends the rows of a page only after a request for  *)
(* that page succeeded: the data it processes was fetched from the current *)
(* start, no row is appended twice, and no read of an unassigned data ends *)
(* the call.                                                               *)
(***************************************************************************)
\* The rows being processed answer the request made from current_start.
DataIsOfThisPage ==
    /\ d_data # Unbound
    /\ d_data # Bound(<<>>) => d_data[1][1] = d_start

C29_AppendsOnlyFetchedPage ==
    /\ d_raised # "UnboundLocalError"
    /\ d_pc = "page" => DataIsOfThisPage
    /\ \A i \in 1..Len(d_rows) : \A j \in 1..Len(d_rows) :
          i < j => d_rows[i] < d_rows[j]

(***************************************************************************)
(* h003_abc_reversal: one call of generate_signals.  A candle is its high, *)
(* low and close; sequences are indexed from 1, so the candle pandas calls *)
(* i is element i + 1.                                                     *)
(***************************************************************************)
SignalCandles == 9

\* PIVOT_WINDOW = 2
PIVOT_WINDOW == 2

\* C_DEPTH_MIN = 0.30, as the fraction DepthNum / DepthDen.
DepthNum == 3
DepthDen == 10

Bar(high, low, close) == [high |-> high, low |-> low, close |-> close]
Peak == Bar(10, 6, 6)
Mid == Bar(8, 5, 6)
Trough == Bar(6, 2, 5)
Bars == {Peak, Mid, Trough}

\* The two closing prices of Bars.
LowClose == 5
HighClose == 6

SetMax(S) == CHOOSE x \in S : \A y \in S : y <= x
SetMin(S) == CHOOSE x \in S : \A y \in S : x <= y

\* _find_pivots: i in range(window, n - window) whose high (low) equals the
\* maximum (minimum) of iloc[i - window : i + window + 1].
PivotRange(frame, window) == (window + 1)..(Len(frame) - window)
PivotHighs(frame, window) ==
    { k \in PivotRange(frame, window) :
        frame[k].high =
            SetMax({ frame[j].high : j \in (k - window)..(k + window) }) }
PivotLows(frame, window) ==
    { k \in PivotRange(frame, window) :
        frame[k].low =
            SetMin({ frame[j].low : j \in (k - window)..(k + window) }) }

\* df["close"] > df["close"].ewm(span=200, adjust=False).mean().  The mean
\* at k is a weighted average, every weight positive, of the closes up to
\* k, so a close exceeds it exactly when it exceeds the average of the
\* earlier closes; with the two closes of Bars that is: the close is the
\* high one and an earlier close was the low one.
Bull(frame, k) ==
    /\ frame[k].close = HighClose
    /\ \E j \in 1..(k - 1) : frame[j].close = LowClose

\* The body of the loop of _find_abc_signals for the pivot low c: TRUE when
\* it reaches "signal_idx = c_i + 1".
AbcAt(frame, ph, pl, c) ==
    LET ph1_candidates == { i \in ph : i < c }
    IN  /\ ph1_candidates # {}
        /\ LET ph1 == SetMax(ph1_candidates)
               pl0_candidates == { i \in pl : i < ph1 }
           IN  /\ frame[ph1].high - frame[c].low > 0
               /\ pl0_candidates # {}
               /\ LET pl0 == SetMax(pl0_candidates)
                      ph0_candidates == { i \in ph : i < pl0 }
                  IN  /\ ph0_candidates # {}
                      /\ LET ph0 == SetMax(ph0_candidates)
                             a_size == frame[ph0].high - frame[pl0].low
                             c_drop == frame[ph1].high - frame[c].low
                         IN  /\ a_size > 0
                             /\ frame[ph1].high < frame[ph0].high
                             /\ DepthDen * c_drop >= DepthNum * a_size

\* _find_abc_signals: True on the candle after each accepted pivot low.
AbcSignals(frame, ph, pl) ==
    [k \in 1..Len(frame) |-> \E c \in pl : c + 1 = k /\ AbcAt(frame, ph, pl, c)]

\* generate_signals as a function of the frame.
generate_signals(frame) ==
    LET abc == AbcSignals(frame, PivotHighs(frame, PIVOT_WINDOW),
                          PivotLows(frame, PIVOT_WINDOW))
    IN  [k \in 1..Len(frame) |-> abc[k] /\ Bull(frame, k)]

InitSignals ==
    /\ s_df \in [1..SignalCandles -> Bars]
    /\ s_pc = "gate"
    /\ s_bull = <<>>
    /\ s_ph = {}
    /\ s_pl = {}
    /\ s_signal = <<>>
    /\ exit_model = <<>>
    /\ NoEngine
    /\ FirstCall
    /\ NoGetExit
    /\ NoFactory
    /\ NoWalkForward
    /\ NoFetch

SignalFrame ==
    /\ UNCHANGED s_df
    /\ UNCHANGED <<engineVars, callerVars, getExitVars, factoryVars>>
    /\ UNCHANGED <<walkVars, fetchVars>>

\* df["bull"] = df["close"] > df["ema200"]
Gate ==
    /\ s_pc = "gate"
    /\ s_bull' = [k \in 1..Len(s_df) |-> Bull(s_df, k)]
    /\ s_pc' = "pivots"
    /\ UNCHANGED <<s_ph, s_pl, s_signal>>
    /\ SignalFrame

\* ph_idx, pl_idx = self._find_pivots(df, self.PIVOT_WINDOW)
FindPivots ==
    /\ s_pc = "pivots"
    /\ s_ph' = PivotHighs(s_df, PIVOT_WINDOW)
    /\ s_pl' = PivotLows(s_df, PIVOT_WINDOW)
    /\ s_pc' = "scan"
    /\ UNCHANGED <<s_bull, s_signal>>
    /\ SignalFrame

\* The loop over pl_idx, and return abc_signals & df["bull"].
ScanPivots ==
    /\ s_pc = "scan"
    /\ s_signal' = [k \in 1..Len(s_df) |->
                       AbcSignals(s_df, s_ph, s_pl)[k] /\ s_bull[k]]
    /\ s_pc' = "done"
    /\ UNCHANGED <<s_bull, s_ph, s_pl>>
    /\ SignalFrame

NextSignals ==
    \/ Gate
    \/ FindPivots
    \/ ScanPivots

SpecSignals == InitSignals /\ [][NextSignals]_vars

(***************************************************************************)
(* C30. h003 uses no future data: the signal at a candle depends only on   *)
(* that candle and the earlier ones, so replacing a later candle by        *)
(* another one leaves the signal unchanged.                                *)
(***************************************************************************)
\* The frame with candle j replaced by bar.
Altered(frame, j, bar) == [frame EXCEPT ![j] = bar]

C30_NoFutureData ==
    s_pc = "done" =>
        \A j \in 1..Len(s_df) : \A bar \in Bars :
            \A k \in 1..(j - 1) :
                generate_signals(Altered(s_df, j, bar))[k] = s_signal[k]

====
